---- MODULE Spec2Model ----
(***************************************************************************)
(* Model of kitty/freetype.c: the growable glyph canvas (GlyphBuffer,      *)
(* ensure_space, apply_bitmap), the compositing loop of                    *)
(* draw_complex_glyph and the cell fitter trim_to_width.                   *)
(*                                                                         *)
(* Two specifications share the variables below:                          *)
(*   Spec     draw_complex_glyph: its loop, with ensure_space and          *)
(*            apply_bitmap, one step per half of a loop iteration          *)
(*   SpecFit  trim_to_width, called once and again on its own output       *)
(*                                                                         *)
(* Pixel-space floats are held in 1/64 pixel units: every value the code   *)
(* computes is a small multiple of 1/64 and so exact in a C float.         *)
(***************************************************************************)
EXTENDS Integers, Sequences, FiniteSets

VARIABLES
    pc,          \* which entry point runs and where it is
    bitmap,      \* trim_to_width: the Bitmap struct sequence passed in
    cell_width,  \* trim_to_width: the cell_width argument
    ans,         \* trim_to_width: what the call returned
    g,           \* the GlyphBuffer (buf, width, height, metrics)
    last,        \* the GlyphBuffer as it was before the last step
    sd,          \* draw_complex_glyph: the shaped records consumed so far
    i,           \* draw_complex_glyph: loop index
    x,           \* draw_complex_glyph: float x, in 1/64 pixel
    y,           \* draw_complex_glyph: float y, in 1/64 pixel
    width,       \* draw_complex_glyph: running width
    height,      \* draw_complex_glyph: running height
    slot,        \* self->face->glyph: the face's single glyph slot
    loads,       \* draw_complex_glyph: what each _load_char call did
    placed,      \* draw_complex_glyph: the apply_bitmap calls made so far
    result       \* draw_complex_glyph: what the call returned

vars == <<pc, bitmap, cell_width, ans, g, last, sd, i, x, y, width, height,
          slot, loads, placed, result>>

fitVars == <<bitmap, cell_width, ans>>
drawVars == <<g, last, sd, i, x, y, width, height, slot, loads, placed, result>>

(***************************************************************************)
(* Bounds of the model.                                                    *)
(***************************************************************************)
MaxRows == 2      \* rows of a bitmap handed to trim_to_width
MaxWidth == 5     \* width of a bitmap handed to trim_to_width
MaxPixels == 10   \* rows * width of a bitmap handed to trim_to_width
MaxGlyphs == 2    \* shaped records of one draw_complex_glyph call

(***************************************************************************)
(* unsigned long arithmetic.  The C type is 64 bits wide (32 on some       *)
(* targets); the modulus is scaled down to 2^30 to stay within the         *)
(* integers of the model.  Only the wrap of width - cell_width below zero  *)
(* matters, and any modulus above twice the largest width wraps it to a    *)
(* value that is >= cell_width, as 2^64 does.                              *)
(***************************************************************************)
ULongMod == 2^30

ULongSub(a, b) == (a - b + ULongMod) % ULongMod

MIN(a, b) == IF a > b THEN b ELSE a

MAX(a, b) == IF a > b THEN a ELSE b

\* The intensity above which trim_to_width takes a pixel for text.
TextThreshold == 200

(***************************************************************************)
(* trim_to_width                                                           *)
(***************************************************************************)
\* src[x + y] of trim_to_width: the byte at column c of row r, rows being
\* `width` bytes apart.
SrcByte(bm, r, c) == bm.buffer[r * bm.width + c + 1]

\* ColumnHasText with the test written as src[x + y] >= 200.
ColumnHasTextAtThreshold(bm, c) ==
    \E r \in 0..(bm.rows - 1) : SrcByte(bm, r, c) >= TextThreshold

\* for (y = 0; y < rows * width; y += width) if (src[x + y] > 200) ...
ColumnHasText(bm, c) ==
    \E r \in 0..(bm.rows - 1) : SrcByte(bm, r, c) > TextThreshold

\* The scanning loop: rtrim after visiting columns xx, xx-1, ... while
\* !column_has_text && x > -1 && rtrim < extra.
RECURSIVE ScanRight(_, _, _, _)
ScanRight(bm, xx, rtrim, extra) ==
    IF xx > -1 /\ rtrim < extra
    THEN IF ColumnHasText(bm, xx)
         THEN rtrim
         ELSE ScanRight(bm, xx - 1, rtrim + 1, extra)
    ELSE rtrim

Rtrim(bm, extra) == MIN(extra, ScanRight(bm, bm.width - 1, 0, extra))

Ltrim(bm, extra) == extra - Rtrim(bm, extra)

\* memcpy(dest + y*cell_width, src + ltrim + y*width, cell_width), every row.
TrimCopy(bm, cw, ltrim) ==
    [k \in 1..(cw * bm.rows) |->
        bm.buffer[ltrim + ((k - 1) \div cw) * bm.width + ((k - 1) % cw) + 1]]

NoBitmap == [rows |-> 0, width |-> 0, pitch |-> 0, buffer |-> <<>>]

NoAnswer == [kind |-> "none", bitmap |-> NoBitmap, rtrim |-> 0, ltrim |-> 0]

\* TooLarge with the test written as extra > cell_width.
TooLargeStrict(extra, cw) == extra > cw

\* TooLarge with a bitmap that needs no trimming turned away as well.
TooLargeOrNothing(extra, cw) == extra = 0 \/ extra >= cw

\* if (extra >= cell_width) { "Too large for trimming" }
TooLarge(extra, cw) == extra >= cw

\* TrimmedBitmap with the width item copied from the input like the rows item.
TrimmedBitmapWidthCopied(bm, cw, ltrim) ==
    [rows |-> bm.rows, width |-> bm.width, pitch |-> cw, buffer |-> TrimCopy(bm, cw, ltrim)]

\* The Bitmap returned: items 1 and 2 set to cell_width, item 3 the new
\* buffer of cell_width * rows bytes, item 0 copied.
TrimmedBitmap(bm, cw, ltrim) ==
    [rows |-> bm.rows, width |-> cw, pitch |-> cw, buffer |-> TrimCopy(bm, cw, ltrim)]

\* The whole call: mem says whether PyStructSequence_New and
\* PyByteArray_FromStringAndSize obtained their memory.
trim_to_width(bm, cw, mem) ==
    LET extra == ULongSub(bm.width, cw) IN
    IF TooLarge(extra, cw)
    THEN [kind |-> "TrimOverflow", bitmap |-> NoBitmap, rtrim |-> 0, ltrim |-> 0]
    ELSE IF ~mem
    THEN [kind |-> "NoMemory", bitmap |-> NoBitmap, rtrim |-> 0, ltrim |-> 0]
    ELSE [kind |-> "ok",
          bitmap |-> TrimmedBitmap(bm, cw, Ltrim(bm, extra)),
          rtrim |-> Rtrim(bm, extra),
          ltrim |-> Ltrim(bm, extra)]

(***************************************************************************)
(* trim_to_width: the calls                                                *)
(***************************************************************************)
\* Pixel intensities of the bitmaps handed in: the last blank one and the
\* first one taken for text.
FitPixels == {TextThreshold, TextThreshold + 1}

FitBitmap(rows, w, buf) == [rows |-> rows, width |-> w, pitch |-> w, buffer |-> buf]

\* Scenario B: 1 x 10, all zero except column 3.
ScenarioB == FitBitmap(1, 10, <<0, 0, 0, 255, 0, 0, 0, 0, 0, 0>>)

\* Scenario C: as B, with column 9 inked too.
ScenarioC == FitBitmap(1, 10, <<0, 0, 0, 255, 0, 0, 0, 0, 0, 255>>)

\* The scenarios of the design's test list: B and C fitted to 8 columns, D
\* (a bitmap 10 wide) to 4.
FitScenarios == { <<ScenarioB, 8>>, <<ScenarioC, 8>>, <<ScenarioB, 4>> }

(***************************************************************************)
(* GlyphBuffer, ensure_space, apply_bitmap                                 *)
(***************************************************************************)
\* FT_Glyph_Metrics, cut to three of its fields; GlyphBuffer g = {0}.
ZeroMetrics == [width |-> 0, height |-> 0, horiAdvance |-> 0]

\* alloc is buf != NULL; buf holds the bytes of the allocation.
EmptyGlyphBuffer ==
    [buf |-> <<>>, alloc |-> FALSE, width |-> 0, height |-> 0, metrics |-> ZeroMetrics]

\* calloc(n, 1)
Zeroes(n) == [k \in 1..n |-> 0]

\* memcpy(dst + doff, src + soff, n), the offsets counted from 0.
Memcpy(dst, doff, src, soff, n) ==
    [k \in 1..Len(dst) |->
        IF doff < k /\ k <= doff + n THEN src[soff + (k - doff)] ELSE dst[k]]

\* Whether that memcpy stays inside both buffers.
MemcpyInBounds(dst, doff, src, soff, n) ==
    n = 0 \/ (doff + n <= Len(dst) /\ soff + n <= Len(src))

\* CopyRows with the rows of the new buffer taken to be as far apart as
\* those of the old one.
RECURSIVE CopyRowsOldStride(_, _, _, _)
CopyRowsOldStride(newbuf, gb, w, r) ==
    IF r < gb.height
    THEN CopyRowsOldStride(Memcpy(newbuf, r * gb.width, gb.buf, r * gb.width, gb.width),
                           gb, w, r + 1)
    ELSE newbuf

\* for (r = 0; r < g->height; r++) memcpy(newbuf + r * width, g->buf + r * g->width, g->width)
RECURSIVE CopyRows(_, _, _, _)
CopyRows(newbuf, gb, w, r) ==
    IF r < gb.height
    THEN CopyRows(Memcpy(newbuf, r * w, gb.buf, r * gb.width, gb.width), gb, w, r + 1)
    ELSE newbuf

\* ensure_space(g, width, height); mem says whether calloc returned memory.
\* Returns the buffer and the function's bool.
ensure_space(gb, w, h, mem) ==
    IF gb.width >= w /\ gb.height >= h
    THEN [g |-> gb, ok |-> TRUE]
    ELSE IF ~mem
    THEN [g |-> [gb EXCEPT !.buf = <<>>, !.alloc = FALSE, !.width = 0, !.height = 0],
          ok |-> FALSE]
    ELSE [g |-> [gb EXCEPT !.buf = CopyRows(Zeroes(w * h), gb, w, 0),
                           !.alloc = TRUE, !.width = w, !.height = h],
          ok |-> TRUE]

ZERO_SUB(a, b) == IF a <= b THEN 0 ELSE a - b

\* size_t width = MIN(ZERO_SUB(dest->width, dest_start.x), ZERO_SUB(src_width, src_start.x))
ApplyWidth(gb, bm, src_start, dest_start) ==
    MIN(ZERO_SUB(gb.width, dest_start.x), ZERO_SUB(bm.pitch, src_start.x))

\* The source offset of one row's memcpy: src + sy * src_width.
ApplySrcOffset(bm, src_start, sy) == sy * bm.pitch

\* for (sy = src_start.y, dy = dest_start.y; sy < src_height && dy < dest->height; sy++, dy++)
RECURSIVE ApplyRows(_, _, _, _, _, _, _)
ApplyRows(buf, gb, bm, src_start, dest_start, sy, dy) ==
    IF sy < bm.rows /\ dy < gb.height
    THEN ApplyRows(Memcpy(buf, dest_start.x + dy * gb.width,
                          bm.buffer, ApplySrcOffset(bm, src_start, sy),
                          ApplyWidth(gb, bm, src_start, dest_start)),
                   gb, bm, src_start, dest_start, sy + 1, dy + 1)
    ELSE buf

apply_bitmap(gb, bm, src_start, dest_start) ==
    [gb EXCEPT !.buf = ApplyRows(gb.buf, gb, bm, src_start, dest_start,
                                 src_start.y, dest_start.y)]

\* Whether every memcpy of that apply_bitmap call stays inside both buffers.
ApplyInBounds(gb, bm, src_start, dest_start) ==
    \A k \in 0..(bm.rows - 1) :
        (src_start.y + k < bm.rows /\ dest_start.y + k < gb.height)
            => MemcpyInBounds(gb.buf, dest_start.x + (dest_start.y + k) * gb.width,
                              bm.buffer, ApplySrcOffset(bm, src_start, src_start.y + k),
                              ApplyWidth(gb, bm, src_start, dest_start))

(***************************************************************************)
(* The face: its glyphs, its character map, its glyph slot                 *)
(***************************************************************************)
GlyphBitmap(rows, w, buf, mode) ==
    [rows |-> rows, width |-> w, pitch |-> w, buffer |-> buf, pixel_mode |-> mode]

\* What FT_Load_Glyph with FT_LOAD_RENDER leaves in the slot for each glyph
\* index of the face: a 1 x 1 dot, a 2 x 2 glyph of four different
\* intensities, a 1 x 1 glyph rendered as a monochrome bitmap, an empty glyph.
FaceGlyphs ==
    [n \in 1..4 |->
        [index |-> n,
         bitmap |-> CASE n = 1 -> GlyphBitmap(1, 1, <<255>>, "GRAY")
                      [] n = 2 -> GlyphBitmap(2, 2, <<100, 255, 150, 250>>, "GRAY")
                      [] n = 3 -> GlyphBitmap(1, 1, <<255>>, "MONO")
                      [] n = 4 -> GlyphBitmap(0, 0, <<>>, "GRAY"),
         metrics |-> [width |-> 64 * n, height |-> 64 * n, horiAdvance |-> 64 * (n + 1)]]]

\* The slot of a face no glyph was loaded into, and of ft_glyphslot_clear.
ClearedSlot ==
    [index |-> 0, bitmap |-> GlyphBitmap(0, 0, <<>>, "NONE"), metrics |-> ZeroMetrics]

\* FT_Get_Char_Index(face, code): the face's character map, which takes a
\* character code to a glyph index and is no identity.
FT_Get_Char_Index(code) ==
    CASE code = 1 -> 2
      [] code = 2 -> 1
      [] OTHER -> code

\* What an FT_Load_Glyph call can do to the slot: load and render the glyph,
\* or fail, leaving the slot as it was or cleared.
LoadOutcomes == {"ok", "stale", "cleared"}

\* _load_char(self, codepoint): the slot afterwards.  The bool it returns is
\* dropped by draw_complex_glyph.
load_char(sl, codepoint, outcome) ==
    CASE outcome = "ok" -> FaceGlyphs[FT_Get_Char_Index(codepoint)]
      [] outcome = "stale" -> sl
      [] outcome = "cleared" -> ClearedSlot

(***************************************************************************)
(* draw_complex_glyph: the arithmetic of one loop iteration                *)
(***************************************************************************)
\* ceilf(v), v in 1/64 pixel, the result in pixels.
Ceilf(v) == IF v >= 0 THEN (v + 63) \div 64 ELSE 0 - ((0 - v) \div 64)

\* roundf(v) for v >= 0: halves round away from zero.
Roundf(v) == (v + 32) \div 64

\* (unsigned int)ceilf(v) is defined only when ceilf(v) > -1.
CastDefined(v) == Ceilf(v) > -1

\* if (i == 0) { g.metrics = self->face->glyph->metrics; }
CaptureMetrics(gb, idx, sl) ==
    IF idx = 0 THEN [gb EXCEPT !.metrics = sl.metrics] ELSE gb

\* x += (float)sd.positions[i].x_offset / 64.0
OffsetX(xx, rec) == xx + rec.x_offset

\* y -= (float)sd.positions[i].y_offset / 64.0
OffsetY(yy, rec) == yy - rec.y_offset

\* RunningWidth with the cast truncating the float, ceilf left out.
RunningWidthTruncated(w, xx, bm) == MAX(w, (xx + 64 * bm.pitch) \div 64)

\* width = MAX(width, (unsigned int)ceilf(x + bitmap.pitch))
RunningWidth(w, xx, bm) == MAX(w, Ceilf(xx + 64 * bm.pitch))

\* height = MAX(height, (unsigned int)ceilf(y + bitmap.rows))
RunningHeight(h, yy, bm) == MAX(h, Ceilf(yy + 64 * bm.rows))

\* src.x = (size_t)(x < 0 ? ceilf(-x) : 0), and the same for y
SrcStart(xx, yy) ==
    [x |-> IF xx < 0 THEN Ceilf(0 - xx) ELSE 0,
     y |-> IF yy < 0 THEN Ceilf(0 - yy) ELSE 0]

\* dest.x = (size_t)(x < 0 ? 0 : roundf(x)), and the same for y
DestStart(xx, yy) ==
    [x |-> IF xx < 0 THEN 0 ELSE Roundf(xx),
     y |-> IF yy < 0 THEN 0 ELSE Roundf(yy)]

\* AdvanceX with the advance, already in 1/64 pixel, divided by 64 again.
AdvanceXTwiceScaled(xx, rec) == xx + rec.x_advance \div 64

\* x += (float)sd.positions[i].x_advance / 64.0
AdvanceX(xx, rec) == xx + rec.x_advance

\* The value draw_complex_glyph returns once the loop is over.
ReturnValue(gb) ==
    IF ~gb.alloc
    THEN [kind |-> "EmptyShapeResult", buf |-> <<>>, metrics |-> ZeroMetrics,
          width |-> 0, height |-> 0]
    ELSE [kind |-> "ok", buf |-> gb.buf, metrics |-> gb.metrics,
          width |-> gb.width, height |-> gb.height]

Failure(kind) ==
    [kind |-> kind, buf |-> <<>>, metrics |-> ZeroMetrics, width |-> 0, height |-> 0]

NoResult == Failure("none")

(***************************************************************************)
(* The shaper's output                                                     *)
(***************************************************************************)
\* hb_glyph_position_t values in 1/64 pixel: x_offset, y_offset, x_advance.
ShapePositions ==
    { <<0, 0, 0>>, <<0, 0, 512>>, <<-64, 0, 64>>, <<32, 0, 64>>,
      <<0, 64, 64>>, <<0, -64, 64>> }

\* hb_glyph_info_t.codepoint after shaping is a glyph id, 0 for no glyph.
ShapeRecords ==
    { [codepoint |-> c, x_offset |-> p[1], y_offset |-> p[2], x_advance |-> p[3]] :
        c \in 0..4, p \in ShapePositions }

(***************************************************************************)
(* draw_complex_glyph: the steps                                           *)
(***************************************************************************)
IdleFit == bitmap = NoBitmap /\ cell_width = 0 /\ ans = NoAnswer

IdleDraw ==
    /\ g = EmptyGlyphBuffer /\ last = EmptyGlyphBuffer
    /\ sd = <<>> /\ i = 0 /\ x = 0 /\ y = 0 /\ width = 0 /\ height = 0
    /\ slot = ClearedSlot /\ loads = <<>> /\ placed = <<>> /\ result = NoResult

\* float x = 0, y = 0; width = 0, height = 0; GlyphBuffer g = {0}
Init == pc = "loop" /\ IdleDraw /\ IdleFit

\* The record at sd.info[i] / sd.positions[i] is there to be read.
MoreRecords == pc = "loop" /\ Len(sd) < MaxGlyphs

\* Both (unsigned int)ceilf(...) casts of the iteration are defined.
CastsDefined(xx, yy, bm) ==
    CastDefined(xx + 64 * bm.pitch) /\ CastDefined(yy + 64 * bm.rows)

LoadRecord(rec, outcome) ==
    [i |-> i, codepoint |-> rec.codepoint, outcome |-> outcome,
     slot |-> load_char(slot, rec.codepoint, outcome)]

\* if (sd.info[i].codepoint == 0) continue;
Skip(rec) ==
    /\ MoreRecords
    /\ rec.codepoint = 0
    /\ sd' = Append(sd, rec)
    /\ i' = i + 1
    /\ UNCHANGED <<pc, g, last, x, y, width, height, slot, loads, placed, result>>
    /\ UNCHANGED fitVars

\* _load_char ... ensure_space returning true.
LoadAndGrow(rec, outcome) ==
    LET sl == load_char(slot, rec.codepoint, outcome)
        nx == OffsetX(x, rec)
        ny == OffsetY(y, rec)
        w == RunningWidth(width, nx, sl.bitmap)
        h == RunningHeight(height, ny, sl.bitmap)
        es == ensure_space(CaptureMetrics(g, i, sl), w, h, TRUE)
    IN  /\ MoreRecords
        /\ rec.codepoint # 0
        /\ CastsDefined(nx, ny, sl.bitmap)
        /\ es.ok
        /\ sd' = Append(sd, rec)
        /\ slot' = sl
        /\ loads' = Append(loads, LoadRecord(rec, outcome))
        /\ x' = nx /\ y' = ny /\ width' = w /\ height' = h
        /\ last' = g
        /\ g' = es.g
        /\ pc' = "place"
        /\ UNCHANGED <<i, placed, result>>
        /\ UNCHANGED fitVars

\* _load_char ... if (!ensure_space(&g, width, height)) return PyErr_NoMemory();
LoadNoMemory(rec, outcome) ==
    LET sl == load_char(slot, rec.codepoint, outcome)
        nx == OffsetX(x, rec)
        ny == OffsetY(y, rec)
        w == RunningWidth(width, nx, sl.bitmap)
        h == RunningHeight(height, ny, sl.bitmap)
        es == ensure_space(CaptureMetrics(g, i, sl), w, h, FALSE)
    IN  /\ MoreRecords
        /\ rec.codepoint # 0
        /\ CastsDefined(nx, ny, sl.bitmap)
        /\ ~es.ok
        /\ sd' = Append(sd, rec)
        /\ slot' = sl
        /\ loads' = Append(loads, LoadRecord(rec, outcome))
        /\ x' = nx /\ y' = ny /\ width' = w /\ height' = h
        /\ last' = g
        /\ g' = es.g
        /\ result' = Failure("NoMemory")
        /\ pc' = "done"
        /\ UNCHANGED <<i, placed>>
        /\ UNCHANGED fitVars

\* The float handed to (unsigned int) is -1 or less: the conversion is
\* undefined, and nothing is said of what the call does from there on.
LoadUndefined(rec, outcome) ==
    LET sl == load_char(slot, rec.codepoint, outcome)
        nx == OffsetX(x, rec)
        ny == OffsetY(y, rec)
    IN  /\ MoreRecords
        /\ rec.codepoint # 0
        /\ ~CastsDefined(nx, ny, sl.bitmap)
        /\ sd' = Append(sd, rec)
        /\ slot' = sl
        /\ loads' = Append(loads, LoadRecord(rec, outcome))
        /\ x' = nx /\ y' = ny
        /\ result' = Failure("Undefined")
        /\ pc' = "done"
        /\ UNCHANGED <<i, g, last, width, height, placed>>
        /\ UNCHANGED fitVars

PlaceRecord(src, dest) ==
    [i |-> i, x |-> x, y |-> y, src |-> src, dest |-> dest, bitmap |-> slot.bitmap,
     index |-> slot.index, width |-> g.width, height |-> g.height]

\* src/dest, the pixel mode test passing, apply_bitmap, x += x_advance, y = 0
Place ==
    LET src == SrcStart(x, y)
        dest == DestStart(x, y)
    IN  /\ pc = "place"
        /\ slot.bitmap.pixel_mode = "GRAY"
        /\ last' = g
        /\ g' = apply_bitmap(g, slot.bitmap, src, dest)
        /\ placed' = Append(placed, PlaceRecord(src, dest))
        /\ x' = AdvanceX(x, sd[Len(sd)])
        /\ y' = 0
        /\ i' = i + 1
        /\ pc' = "loop"
        /\ UNCHANGED <<sd, width, height, slot, loads, result>>
        /\ UNCHANGED fitVars

\* if (bitmap.pixel_mode != FT_PIXEL_MODE_GRAY) { free(g.buf); ... return NULL; }
PlaceUnsupported ==
    /\ pc = "place"
    /\ slot.bitmap.pixel_mode # "GRAY"
    /\ last' = g
    /\ g' = [g EXCEPT !.buf = <<>>, !.alloc = FALSE]
    /\ result' = Failure("UnsupportedPixelFormat")
    /\ pc' = "done"
    /\ UNCHANGED <<sd, i, x, y, width, height, slot, loads, placed>>
    /\ UNCHANGED fitVars

\* i == sd.length: the loop is over; if (!g.buf) ... else the bytes, the
\* metrics, g.width and g.height are returned.
Return ==
    /\ pc = "loop"
    /\ result' = ReturnValue(g)
    /\ pc' = "done"
    /\ UNCHANGED <<g, last, sd, i, x, y, width, height, slot, loads, placed>>
    /\ UNCHANGED fitVars

Next ==
    \/ \E rec \in ShapeRecords : Skip(rec)
    \/ \E rec \in ShapeRecords, outcome \in LoadOutcomes : LoadAndGrow(rec, outcome)
    \/ \E rec \in ShapeRecords, outcome \in LoadOutcomes : LoadNoMemory(rec, outcome)
    \/ \E rec \in ShapeRecords, outcome \in LoadOutcomes : LoadUndefined(rec, outcome)
    \/ Place
    \/ PlaceUnsupported
    \/ Return

Spec == Init /\ [][Next]_vars

(***************************************************************************)
(* trim_to_width: the steps                                                *)
(***************************************************************************)
InitFit ==
    /\ pc = "fit"
    /\ \/ \E r \in 0..MaxRows, w \in 0..MaxWidth :
              /\ r * w <= MaxPixels
              /\ \E b \in [1..(r * w) -> FitPixels] : bitmap = FitBitmap(r, w, b)
       \/ \E inp \in FitScenarios : bitmap = inp[1]
    /\ \/ cell_width \in 0..(MaxWidth + 1)
       \/ \E inp \in FitScenarios : bitmap = inp[1] /\ cell_width = inp[2]
    /\ ans = NoAnswer
    /\ IdleDraw

\* trim_to_width(bitmap, cell_width)
TrimCall(mem) ==
    /\ pc = "fit"
    /\ ans' = trim_to_width(bitmap, cell_width, mem)
    /\ pc' = "fitted"
    /\ UNCHANGED <<bitmap, cell_width>>
    /\ UNCHANGED drawVars

\* trim_to_width(ans, cell_width): the bitmap returned is fitted again
TrimAgain(mem) ==
    /\ pc = "fitted"
    /\ ans.kind = "ok"
    /\ bitmap' = ans.bitmap
    /\ ans' = trim_to_width(ans.bitmap, cell_width, mem)
    /\ pc' = "refitted"
    /\ UNCHANGED cell_width
    /\ UNCHANGED drawVars

NextFit == (\E mem \in BOOLEAN : TrimCall(mem)) \/ (\E mem \in BOOLEAN : TrimAgain(mem))

SpecFit == InitFit /\ [][NextFit]_vars

(***************************************************************************)
(* Properties of trim_to_width (checked under SpecFit)                     *)
(***************************************************************************)
Fitted == pc \in {"fitted", "refitted"}

\* Column c of the bitmap passed in is blank: no row has a pixel above 200.
BlankColumn(c) ==
    \A r \in 0..(bitmap.rows - 1) : bitmap.buffer[r * bitmap.width + c + 1] <= 200

\* The number of consecutive blank columns counted from the rightmost one.
BlankRun ==
    CHOOSE n \in 0..bitmap.width :
        /\ \A c \in (bitmap.width - n)..(bitmap.width - 1) : BlankColumn(c)
        /\ n < bitmap.width => ~BlankColumn(bitmap.width - n - 1)

\* C1: whenever trim_to_width succeeds, the bitmap returned is exactly
\* cell_width wide, has the rows of the input and a buffer of
\* rows * cell_width bytes.
C1_OutputWidthExact ==
    (Fitted /\ ans.kind = "ok") =>
        /\ ans.bitmap.width = cell_width
        /\ ans.bitmap.rows = bitmap.rows
        /\ Len(ans.bitmap.buffer) = bitmap.rows * cell_width

C1_Witness ==
    /\ pc = "fitted" /\ ans.kind = "ok"
    /\ bitmap.width > cell_width /\ bitmap.rows > 0
    /\ ans.bitmap.width = cell_width

\* C2: for cell_width < width < 2 * cell_width, right_trim is the smaller of
\* extra and the run of blank columns at the right edge, left_trim is the
\* rest of extra, and output pixel (r, c) is source pixel (r, left_trim + c);
\* every column removed on the right is blank and left_trim + cell_width
\* stays within the source.  Scenario B trims 2 right and 0 left, scenario C
\* 0 right and 2 left.
C2_TrimSplit ==
    (Fitted /\ ans.kind = "ok"
            /\ cell_width < bitmap.width /\ bitmap.width < 2 * cell_width) =>
        LET extra == bitmap.width - cell_width
            right_trim == IF BlankRun < extra THEN BlankRun ELSE extra
        IN  /\ ans.rtrim = right_trim
            /\ ans.ltrim = extra - right_trim
            /\ ans.ltrim + ans.rtrim = extra
            /\ ans.ltrim + cell_width <= bitmap.width
            /\ \A c \in (bitmap.width - ans.rtrim)..(bitmap.width - 1) : BlankColumn(c)
            /\ \A r \in 0..(bitmap.rows - 1), c \in 0..(cell_width - 1) :
                   ans.bitmap.buffer[r * cell_width + c + 1]
                       = bitmap.buffer[r * bitmap.width + ans.ltrim + c + 1]
            /\ (bitmap = ScenarioB /\ cell_width = 8) => (ans.rtrim = 2 /\ ans.ltrim = 0)
            /\ (bitmap = ScenarioC /\ cell_width = 8) =>
                   /\ ans.rtrim = 0 /\ ans.ltrim = 2
                   /\ ans.bitmap.buffer[2] = 255 /\ ans.bitmap.buffer[8] = 255

\* A two-row bitmap trimmed on both sides, the right column blank only up to
\* the threshold.
C2_Witness ==
    /\ pc = "fitted" /\ ans.kind = "ok"
    /\ bitmap.rows = 2
    /\ ans.rtrim > 0 /\ ans.ltrim > 0

\* C3 as stated: a call on a bitmap whose width already equals cell_width
\* fails and returns no bitmap.
C3_Original ==
    (Fitted /\ bitmap.width = cell_width) => ans.kind # "ok"

\* C3 as amended: a call with width < cell_width, or with cell_width 0,
\* fails with the trimming error; a call with width = cell_width > 0 is not
\* turned away: extra is 0, nothing is trimmed, and the bitmap returned
\* (memory permitting) is a copy of the one passed in.
C3_EqualWidthIsCopied ==
    Fitted =>
        /\ (bitmap.width < cell_width \/ cell_width = 0) => ans.kind = "TrimOverflow"
        /\ (bitmap.width = cell_width /\ cell_width > 0) =>
               /\ ans.kind \in {"ok", "NoMemory"}
               /\ ans.kind = "ok" =>
                      /\ ans.rtrim = 0 /\ ans.ltrim = 0
                      /\ ans.bitmap.rows = bitmap.rows
                      /\ ans.bitmap.width = bitmap.width
                      /\ ans.bitmap.buffer = bitmap.buffer

\* The output of one call fitted again to the same cell_width.
C3_Witness ==
    /\ pc = "refitted" /\ ans.kind = "ok"
    /\ bitmap.rows > 0 /\ bitmap.width = cell_width
    /\ ans.bitmap.buffer = bitmap.buffer

\* C4 as stated: for width > cell_width the call fails with the trimming
\* error exactly when extra >= cell_width, and so only when more than half
\* of the source columns would go.
C4_Original ==
    (Fitted /\ bitmap.width > cell_width) =>
        LET extra == bitmap.width - cell_width
        IN  /\ (ans.kind = "TrimOverflow") <=> (extra >= cell_width)
            /\ (ans.kind = "TrimOverflow") => (2 * extra > bitmap.width)

\* C4 as amended: for width > cell_width the call fails with the trimming
\* error exactly when extra >= cell_width, which is when half or more of the
\* source columns would go; for a smaller extra it is not turned away
\* (scenario D, width 10 and cell_width 4, fails).
C4_OverflowIffHalfOrMore ==
    (Fitted /\ bitmap.width > cell_width) =>
        LET extra == bitmap.width - cell_width
        IN  /\ (ans.kind = "TrimOverflow") <=> (extra >= cell_width)
            /\ (ans.kind = "TrimOverflow") <=> (2 * extra >= bitmap.width)
            /\ (ans.kind = "TrimOverflow") => (ans.bitmap = NoBitmap)
            /\ extra < cell_width => ans.kind \in {"ok", "NoMemory"}
            /\ (bitmap.width = 10 /\ cell_width = 4) => ans.kind = "TrimOverflow"

\* Exactly half of the columns would go, and the call fails.
C4_Witness ==
    /\ pc = "fitted" /\ ans.kind = "TrimOverflow"
    /\ cell_width > 0 /\ bitmap.width = 2 * cell_width
    /\ bitmap.rows > 0

(***************************************************************************)
(* Properties of draw_complex_glyph (checked under Spec)                   *)
(***************************************************************************)
\* The canvas byte at column cx of row cy.
Pixel(gb, cx, cy) == gb.buf[cy * gb.width + cx + 1]

\* The bitmap byte at column cx of row cy.
BitmapPixel(bm, cx, cy) == bm.buffer[cy * bm.pitch + cx + 1]

Returned == pc = "done" /\ result.kind = "ok"

\* The loop is running, or the call has returned a canvas.
Compositing == pc \in {"loop", "place"} \/ Returned

Dot == GlyphBitmap(1, 1, <<255>>, "GRAY")

\* A run of two glyphs with non-zero ids, both rasterized to a 1 x 1 dot of
\* intensity 255, zero offsets, and the x_advances a1 and a2.
TwoDots(a1, a2) ==
    /\ Len(sd) = 2 /\ Len(loads) = 2
    /\ \A k \in 1..2 :
           /\ sd[k].codepoint # 0 /\ sd[k].x_offset = 0 /\ sd[k].y_offset = 0
           /\ loads[k].outcome = "ok" /\ loads[k].slot.bitmap = Dot
    /\ sd[1].x_advance = a1 /\ sd[2].x_advance = a2

\* C5 as stated (scenario A): two dots with x_advance 0 * 64 and 8 * 64 give
\* a canvas at least 9 columns wide, columns 0 and 8 at 255, the others 0.
C5_Original ==
    (Returned /\ TwoDots(0, 512)) =>
        /\ result.width >= 9
        /\ \A c \in 0..(result.width - 1) :
               result.buf[c + 1] = IF c \in {0, 8} THEN 255 ELSE 0

\* C5 as amended: a glyph's x_advance moves the cursor only after the glyph
\* is placed, so two dots with x_advance 0 * 64 and 8 * 64 both land on
\* column 0 of a 1 x 1 canvas holding 255; with x_advance 8 * 64 for the
\* first dot the canvas is 1 row of 9 columns, columns 0 and 8 at 255 and
\* the others 0.
C5_AdvanceAfterPlacing ==
    /\ (Returned /\ TwoDots(0, 512)) =>
           /\ result.width = 1 /\ result.height = 1
           /\ result.buf = <<255>>
    /\ (Returned /\ \E a \in {0, 512} : TwoDots(512, a)) =>
           /\ result.width = 9 /\ result.height = 1
           /\ \A c \in 0..8 : result.buf[c + 1] = IF c \in {0, 8} THEN 255 ELSE 0

C5_Witness == Returned /\ TwoDots(0, 512) /\ result.buf = <<255>>

\* C6: when ensure_space grows a canvas of (w, h) to the requested (w', h'),
\* w' >= w and h' >= h, every pixel of the old rectangle keeps its value at
\* its (x, y), every other pixel is 0 and the dimensions become (w', h');
\* when the canvas already covers the request it is left as it was.
C6_GrowKeepsContent ==
    pc = "place" =>
        /\ width >= last.width /\ height >= last.height
        /\ IF last.width >= width /\ last.height >= height
           THEN /\ g.buf = last.buf /\ g.alloc = last.alloc
                /\ g.width = last.width /\ g.height = last.height
           ELSE /\ g.width = width /\ g.height = height
                /\ Len(g.buf) = width * height
                /\ \A cx \in 0..(width - 1), cy \in 0..(height - 1) :
                       Pixel(g, cx, cy) =
                           IF cx < last.width /\ cy < last.height
                           THEN Pixel(last, cx, cy)
                           ELSE 0

\* A canvas of two rows holding ink grows in width.
C6_Witness ==
    /\ pc = "place"
    /\ last.height = 2 /\ last.width > 0 /\ g.width > last.width
    /\ \E k \in 1..Len(last.buf) : last.buf[k] # 0

\* C7: while the call runs and when it returns a canvas, the canvas is at
\* least dest + bitmap size, in width and in height, for every glyph placed
\* at a non-negative cursor position, and its width and height never went
\* down from one placement to the next.
C7_CanvasCoversPlaced ==
    Compositing =>
        /\ \A k \in 1..Len(placed) :
               LET p == placed[k]
               IN  /\ (p.x >= 0 /\ p.y >= 0) =>
                          /\ g.width >= p.dest.x + p.bitmap.pitch
                          /\ g.height >= p.dest.y + p.bitmap.rows
                   /\ p.width <= g.width /\ p.height <= g.height
                   /\ k > 1 => /\ placed[k - 1].width <= p.width
                               /\ placed[k - 1].height <= p.height
        /\ last.width <= g.width /\ last.height <= g.height
        /\ Returned => (result.width = g.width /\ result.height = g.height)

\* Two glyphs placed, the second at a cursor between two pixels, the canvas
\* grown for it.
C7_Witness ==
    /\ Returned /\ Len(placed) = 2
    /\ placed[2].x > 0 /\ placed[2].x % 64 # 0 /\ placed[2].y >= 0
    /\ placed[2].width > placed[1].width

\* The bytes an apply_bitmap call copied.
PlacedBytes(p) ==
    MIN(ZERO_SUB(p.width, p.dest.x), ZERO_SUB(p.bitmap.pitch, p.src.x))
        * MIN(ZERO_SUB(p.bitmap.rows, p.src.y), ZERO_SUB(p.height, p.dest.y))

NoPixelsPlaced == \A k \in 1..Len(placed) : PlacedBytes(placed[k]) = 0

\* C8 as stated: the call returns no canvas when no glyph of the run placed
\* any pixel, and fails with EmptyShapeResult when every glyph id is 0.
C8_Original ==
    pc = "done" =>
        /\ NoPixelsPlaced => result.kind # "ok"
        /\ (\A k \in 1..Len(sd) : sd[k].codepoint = 0) => result.kind = "EmptyShapeResult"

\* C9 as stated: the metrics returned are those of the first glyph of the
\* run that was rasterized, the first whose glyph id is not 0.
C9_Original ==
    (Returned /\ \A k \in 1..Len(loads) : loads[k].outcome = "ok") =>
        /\ loads # <<>>
        /\ result.metrics = loads[1].slot.metrics

\* C10 as stated: apply_bitmap copies the source rectangle that starts at
\* src_origin to the canvas at dest_origin, also when src_origin.x > 0; no
\* byte outside the canvas is written and the rest of the canvas is as it was.
C10_Original ==
    (pc = "loop" /\ placed # <<>>) =>
        LET p == placed[Len(placed)]
            cols == MIN(ZERO_SUB(g.width, p.dest.x), ZERO_SUB(p.bitmap.pitch, p.src.x))
            rows == MIN(ZERO_SUB(p.bitmap.rows, p.src.y), ZERO_SUB(g.height, p.dest.y))
        IN  /\ ApplyInBounds(last, p.bitmap, p.src, p.dest)
            /\ Len(g.buf) = Len(last.buf)
            /\ \A cx \in 0..(g.width - 1), cy \in 0..(g.height - 1) :
                   Pixel(g, cx, cy) =
                       IF /\ p.dest.x <= cx /\ cx < p.dest.x + cols
                          /\ p.dest.y <= cy /\ cy < p.dest.y + rows
                       THEN BitmapPixel(p.bitmap, p.src.x + (cx - p.dest.x),
                                        p.src.y + (cy - p.dest.y))
                       ELSE Pixel(last, cx, cy)

\* The loads that draw_complex_glyph made for the record a placed bitmap
\* belongs to.
LoadsOf(p) == {n \in 1..Len(loads) : loads[n].i = p.i}

\* C11 as stated: every bitmap placed on the canvas comes from a load that
\* succeeded for that record, never from what an earlier glyph left in the
\* face's glyph slot, and a call in which a load failed returns no canvas.
C11_Original ==
    /\ \A k \in 1..Len(placed) :
           /\ LoadsOf(placed[k]) # {}
           /\ \A n \in LoadsOf(placed[k]) :
                  /\ loads[n].outcome = "ok"
                  /\ placed[k].bitmap = loads[n].slot.bitmap
    /\ Returned => \A n \in 1..Len(loads) : loads[n].outcome = "ok"

====
